---- MODULE Spec2Model ----
(***************************************************************************)
(* task_buffet: worker processes drain a list of parameterised tasks from  *)
(* one persisted file (the buffet) guarded by a file lock.                 *)
(*                                                                         *)
(* The module models buffet.py (run, TaskBuffet), grid.py (ParamGrid,      *)
(* nd_meshgrid) and util.py (tasks_eq, kill_proc_tree).                    *)
(***************************************************************************)
EXTENDS Integers, Sequences, FiniteSets, TLC

(***************************************************************************)
(* Status codes, buffet.py lines 44-47.                                    *)
(***************************************************************************)
TASK_FAILED == -1
TASK_SUCCESS == 0
TASK_AVAILABLE == 1
TASK_RUNNING == 2

Status == {TASK_FAILED, TASK_SUCCESS, TASK_AVAILABLE, TASK_RUNNING}

(***************************************************************************)
(* Bounds of the model.                                                    *)
(***************************************************************************)
\* number of worker processes calling run() on the same buffet
NWorkers == 2
\* the clock stops at MaxTime; the time budget given is MaxTime - 1
MaxTime == 2
\* longest value list given to the Cartesian grid construction
MaxLen == 2

Workers == 1..NWorkers

(***************************************************************************)
(* Sequence helpers.                                                       *)
(***************************************************************************)
Range(s) == {s[k] : k \in DOMAIN s}

\* reversed(arrs) and ans[::-1]
Reverse(s) == [k \in 1..Len(s) |-> s[Len(s) + 1 - k]]

RECURSIVE Prod(_)
Prod(s) == IF s = <<>> THEN 1 ELSE s[1] * Prod(Tail(s))

(***************************************************************************)
(* numpy arrays of nd_meshgrid.  An n-dimensional array of shape lens is a *)
(* function from index tuples (0-based, one entry per axis) to values.     *)
(***************************************************************************)
RECURSIVE NdIndices(_)
NdIndices(lens) ==
    IF lens = <<>> THEN {<<>>}
    ELSE {<<k>> \o rest : k \in 0..(lens[1] - 1), rest \in NdIndices(Tail(lens))}

\* arr.reshape(slc) with slc[i] = lens[i] and 1 elsewhere, then
\* arr2.repeat(lens[j], axis=j) for every axis j # i: the value at an index
\* tuple is the element of arr selected by the tuple's i-th entry.
ReshapeRepeat(arr, i, lens) ==
    [idx \in NdIndices(lens) |-> arr[idx[i] + 1]]

\* position of an index tuple in C (row-major) order: the last axis is
\* contiguous
RECURSIVE Ravel(_, _)
Ravel(idx, lens) ==
    IF idx = <<>> THEN 0
    ELSE idx[1] * Prod(Tail(lens)) + Ravel(Tail(idx), Tail(lens))

\* ndarray.flatten(): the elements in C order
Flatten(nd, lens) ==
    [f \in 1..Prod(lens) |->
        nd[CHOOSE idx \in NdIndices(lens) : Ravel(idx, lens) = f - 1]]

\* a mutant of nd_meshgrid that forgets to reverse its arguments
nd_meshgrid_noreverse(arrs) ==
    LET lens == [k \in 1..Len(arrs) |-> Len(arrs[k])]
    IN  [i \in 1..Len(arrs) |->
            [shape |-> lens, data |-> ReshapeRepeat(arrs[i], i, lens)]]

\* grid.py nd_meshgrid: one array per parameter, all of the same shape
nd_meshgrid(arrs) ==
    LET rev  == Reverse(arrs)
        lens == [k \in 1..Len(rev) |-> Len(rev[k])]
        ans  == [i \in 1..Len(rev) |->
                    [shape |-> lens, data |-> ReshapeRepeat(rev[i], i, lens)]]
    IN  Reverse(ans)

(***************************************************************************)
(* grid.py ParamGrid.  A grid is a record; NoGrid stands for None.         *)
(***************************************************************************)
NoGrid == [none |-> TRUE, names |-> <<>>, values |-> <<>>, nvals |-> 0,
           nparams |-> 0]

\* ParamGrid.__init__ (the assert of line 19 is ParamGridOK)
ParamGrid(names, values, meshgrid) ==
    LET param_grid ==
            IF meshgrid
            THEN LET g == nd_meshgrid(values)
                 IN  [k \in 1..Len(g) |-> Flatten(g[k].data, g[k].shape)]
            ELSE values
    IN  [none |-> FALSE, names |-> names, values |-> param_grid,
         nvals |-> Len(param_grid[1]), nparams |-> Len(names)]

ParamGridOK(g) == \A k \in DOMAIN g.values : Len(g.values[k]) = g.nvals

\* ParamGrid.__getitem__: {n: v[i] for n, v in zip(names, values)}, i 0-based;
\* a name listed twice keeps its last value, as a dict does
GetItem(g, i) ==
    LET m == IF Len(g.names) < Len(g.values) THEN Len(g.names) ELSE Len(g.values)
    IN  [n \in {g.names[k] : k \in 1..m} |->
            LET last == CHOOSE k \in 1..m :
                            /\ g.names[k] = n
                            /\ \A k2 \in 1..m : g.names[k2] = n => k2 <= k
            IN  g.values[last][i + 1]]

(***************************************************************************)
(* util.py tasks_eq, on the values the model uses: integers (scalars),     *)
(* sequences of integers (value lists) and parameter dictionaries.         *)
(***************************************************************************)
\* the final else branch: a == b on two scalars
tasks_eq_scalar(a, b) == a = b

\* the hasattr(a, '__len__') branch: same length, element-wise
tasks_eq_seq(a, b) ==
    /\ Len(a) = Len(b)
    /\ \A k \in 1..Len(a) : tasks_eq_scalar(a[k], b[k])

\* a mutant of tasks_eq_dict that compares the keys only
tasks_eq_dict_keys_only(a, b) == DOMAIN a = DOMAIN b

\* the isinstance(a, dict) branch: same size, same sorted keys, same values
tasks_eq_dict(a, b) ==
    /\ Cardinality(DOMAIN a) = Cardinality(DOMAIN b)
    /\ DOMAIN a = DOMAIN b
    /\ \A k \in DOMAIN a : tasks_eq_scalar(a[k], b[k])

(***************************************************************************)
(* grid.py ParamGrid.__eq__(self, comp), reached from tasks_eq(saved_g,    *)
(* new_g) through the final a == b branch (a grid has no __len__).         *)
(***************************************************************************)
\* np.all(np.array(self.names) == np.array(comp.names)); name lists of one
\* length compare element-wise, a list of one name is broadcast
GridNamesEq(self, comp) ==
    IF Len(self.names) = Len(comp.names)
    THEN \A k \in 1..Len(self.names) : self.names[k] = comp.names[k]
    ELSE IF Len(self.names) = 1
    THEN \A k \in 1..Len(comp.names) : comp.names[k] = self.names[1]
    ELSE IF Len(comp.names) = 1
    THEN \A k \in 1..Len(self.names) : self.names[k] = comp.names[1]
    ELSE FALSE

\* the comparison raises: saved_g is None (None == new_g calls
\* new_g.__eq__(None), which reads None.names), or comp.values[i] does not
\* exist for some i < self.nparams
GridEqRaises(saved_g, new_g) ==
    \/ saved_g.none
    \/ Len(new_g.values) < saved_g.nparams

\* a mutant of GridEq that never finds two grids equal
GridEqNever(self, comp) == FALSE

GridEq(self, comp) ==
    /\ GridNamesEq(self, comp)
    /\ \A i \in 1..self.nparams : tasks_eq_seq(comp.values[i], self.values[i])

(***************************************************************************)
(* buffet.py TaskBuffet.check_merge_buffets, the merge loop (lines         *)
(* 296-308).                                                               *)
(***************************************************************************)
\* i = 0; while not tasks_eq(saved_p, new_g[i]): i += 1 -- the first index of
\* new_g whose task equals saved_p, or -1 when the loop raises at i == nvals
FirstMatch(saved_p, new_g) ==
    LET hits == {i \in 0..(new_g.nvals - 1) : tasks_eq_dict(saved_p, GetItem(new_g, i))}
    IN  IF hits = {} THEN -1
        ELSE CHOOSE i \in hits : \A j \in hits : i <= j

\* "Unable to find match for a task while merging buffets"
MergeRaises(saved_g, new_g) ==
    \E p \in 0..(saved_g.nvals - 1) : FirstMatch(GetItem(saved_g, p), new_g) = -1

\* for p in range(saved_g.nvals): new_task_status[i] = self.task_status[p],
\* applied in index order starting from p, on the array acc
RECURSIVE MergeLoop(_, _, _, _, _)
MergeLoop(task_status, saved_g, new_g, p, acc) ==
    IF p >= saved_g.nvals THEN acc
    ELSE LET i == FirstMatch(GetItem(saved_g, p), new_g)
         IN  MergeLoop(task_status, saved_g, new_g, p + 1,
                       [acc EXCEPT ![i + 1] = task_status[p + 1]])

\* np.ones(n, dtype=int) * TASK_AVAILABLE
AllAvailable(n) == [k \in 1..n |-> TASK_AVAILABLE]

\* a mutant of MergeStatus that does not carry the saved statuses over
MergeStatusForget(task_status, saved_g, new_g) == AllAvailable(new_g.nvals)

\* a mutant of MergeStatus that keeps the saved array as it is
MergeStatusKeep(task_status, saved_g, new_g) == task_status

MergeStatus(task_status, saved_g, new_g) ==
    MergeLoop(task_status, saved_g, new_g, 0, AllAvailable(new_g.nvals))

(***************************************************************************)
(* buffet.py TaskBuffet.get_next_free and update_task, on the in-memory    *)
(* status array.                                                           *)
(***************************************************************************)
\* np.where(self.task_status == TASK_AVAILABLE)[0]
Free(task_status) == {i \in 0..(Len(task_status) - 1) : task_status[i + 1] = TASK_AVAILABLE}

\* a mutant of NextFree that returns the first index that has not succeeded
NextFreeNotDone(task_status) ==
    LET c == {i \in 0..(Len(task_status) - 1) : task_status[i + 1] # TASK_SUCCESS}
    IN  IF c = {} THEN -1 ELSE CHOOSE i \in c : \A j \in c : i <= j

\* free[0], or -1 when len(free) == 0
NextFree(task_status) ==
    IF Free(task_status) = {} THEN -1
    ELSE CHOOSE i \in Free(task_status) : \A j \in Free(task_status) : i <= j

\* a mutant of MarkRunning that leaves the entry as it is
MarkRunningNot(task_status, i) == task_status

\* self.task_status[i] = TASK_RUNNING
MarkRunning(task_status, i) == [task_status EXCEPT ![i + 1] = TASK_RUNNING]

\* a mutant of SetStatus that records the status in a fresh array
SetStatusAlone(task_status, task_i, st) ==
    [k \in DOMAIN task_status |-> IF k = task_i + 1 THEN st ELSE TASK_AVAILABLE]

\* a mutant of SetStatus that does not record the status
SetStatusForget(task_status, task_i, st) == task_status

\* self.task_status[task_i] = status
SetStatus(task_status, task_i, st) == [task_status EXCEPT ![task_i + 1] = st]

\* a mutant of StatusValid that accepts every status code
StatusValidAny(st) == st \in Status

\* a mutant of StatusValid that accepts whatever was returned
StatusValidAll(st) == TRUE

\* status in [TASK_FAILED, TASK_SUCCESS, TASK_AVAILABLE], run line 174
StatusValid(st) == st \in {TASK_FAILED, TASK_SUCCESS, TASK_AVAILABLE}

(***************************************************************************)
(* The persisted file and the in-memory handle.                            *)
(*   kind "absent"    : os.path.exists(path) is false                      *)
(*   kind "unit"      : the pickled status array followed by the grid      *)
(*                      (NoGrid: the second pickle is missing)             *)
(*   kind "truncated" : a file from which pickle.load(f) cannot read the   *)
(*                      status array                                       *)
(* torn records that the file was left by a dump_buffet that did not       *)
(* reach f.close().                                                        *)
(***************************************************************************)
Absent == [kind |-> "absent", task_status |-> <<>>, task_params |-> NoGrid,
           torn |-> FALSE]

Unit(task_status, task_params) ==
    [kind |-> "unit", task_status |-> task_status, task_params |-> task_params,
     torn |-> FALSE]

\* self.task_status, self.task_params of a TaskBuffet handle
Handle(task_status, task_params) ==
    [task_status |-> task_status, task_params |-> task_params]

NoHandle == Handle(<<>>, NoGrid)

\* a mutant of dump_buffet that writes the status array without the grid
dump_buffet_nogrid(h) == Unit(h.task_status, NoGrid)

\* TaskBuffet.dump_buffet: the whole unit is rewritten
dump_buffet(h) == Unit(h.task_status, h.task_params)

\* what dump_buffet leaves when it fails between bz2.open(path, 'wb') and
\* f.close(): the file is truncated on open; either nothing decodable was
\* written, or (the file object flushed when it is collected) the status
\* array alone
TornFiles(h) ==
    { [kind |-> "truncated", task_status |-> <<>>, task_params |-> NoGrid,
       torn |-> TRUE],
      [kind |-> "unit", task_status |-> h.task_status, task_params |-> NoGrid,
       torn |-> TRUE] }

(***************************************************************************)
(* TaskBuffet.access_buffet under the lock: setup_new_buffet, or           *)
(* open_buffet followed by check_merge_buffets.  a holds the constructor   *)
(* arguments (named: task_param_names is not None).  The result says       *)
(* whether the call raised, the handle's fields and the file afterwards.   *)
(***************************************************************************)
\* the call raised the exception error; the file is left as it was
Raised(file, error) ==
    [raised |-> TRUE, error |-> error, handle |-> NoHandle, file |-> file,
     wrote |-> FALSE]

\* the call returned without calling dump_buffet
Entered(h, file) ==
    [raised |-> FALSE, error |-> "", handle |-> h, file |-> file,
     wrote |-> FALSE]

\* the call returned after dump_buffet wrote file
Dumped(h, file) ==
    [raised |-> FALSE, error |-> "", handle |-> h, file |-> file,
     wrote |-> TRUE]

\* a mutant of setup_new_buffet that marks the first task as running
setup_new_buffet_running(file, a) ==
    LET g == ParamGrid(a.names, a.values, a.build_grid)
        h == Handle([AllAvailable(g.nvals) EXCEPT ![1] = TASK_RUNNING], g)
    IN  Dumped(h, dump_buffet(h))

\* lines 235-248; "Uninitialized task_param names and values, cannot setup
\* a new buffet." when no definition was given, AssertionError from
\* ParamGrid.__init__
setup_new_buffet(file, a) ==
    IF ~a.named THEN Raised(file, "uninitialized_names")
    ELSE LET g == ParamGrid(a.names, a.values, a.build_grid)
         IN  IF ~ParamGridOK(g) THEN Raised(file, "assertion")
             ELSE LET h == Handle(AllAvailable(g.nvals), g)
                  IN  Dumped(h, dump_buffet(h))

\* a mutant of check_merge_buffets that adopts the new grid without a merge
check_merge_buffets_nomerge(h, file, a) ==
    IF ~a.named THEN Entered(h, file)
    ELSE LET new_g == ParamGrid(a.names, a.values, a.build_grid)
             m == Handle(AllAvailable(new_g.nvals), new_g)
         IN  Dumped(m, dump_buffet(m))

\* lines 278-311, merge=True.  The comparison of line 287 raises
\* AttributeError when the saved grid is None; the merge loop raises
\* "Unable to find match for a task while merging buffets".
check_merge_buffets(h, file, a) ==
    IF ~a.named THEN Entered(h, file)
    ELSE LET saved_g == h.task_params
             new_g == ParamGrid(a.names, a.values, a.build_grid)
         IN  IF ~ParamGridOK(new_g) THEN Raised(file, "assertion")
             ELSE IF GridEqRaises(saved_g, new_g) THEN Raised(file, "attribute")
             ELSE IF GridEq(saved_g, new_g) THEN Entered(h, file)
             ELSE IF MergeRaises(saved_g, new_g) THEN Raised(file, "merge")
             ELSE LET m == Handle(MergeStatus(h.task_status, saved_g, new_g), new_g)
                  IN  Dumped(m, dump_buffet(m))

open_buffet(file, a) ==
    IF file.kind = "truncated" THEN Raised(file, "unpickling")
    ELSE check_merge_buffets(Handle(file.task_status, file.task_params), file, a)

\* a mutant of access_buffet that sets up a new buffet on every entry
access_buffet_create(file, a) == setup_new_buffet(file, a)

access_buffet(file, a) ==
    IF file.kind = "absent" THEN setup_new_buffet(file, a)
    ELSE open_buffet(file, a)

(***************************************************************************)
(* State.                                                                  *)
(***************************************************************************)
VARIABLES
    store,      \* the persisted buffet file
    lock,       \* the worker holding the file lock, 0 when it is free
    args,       \* args[w]: the arguments of worker w's call of run()
    pc,         \* pc[w]: where worker w stands in run()
    handle,     \* handle[w]: the fields of w's TaskBuffet inside a with block
    task_i,     \* run's local task_i
    task_p,     \* run's local task_p
    status,     \* run's local status
    time_left,  \* run's local time_left (bound only when a budget is set)
    deadline,   \* the time at which proc.join(timeout=time_left) expires
    beh,        \* what the task function did in w's current execution
    observed,   \* what w's last open_buffet found in the file
    result,     \* the value run() returned: "none" until it returns
    now,        \* the latest value any worker read from time.time(), in ticks
    probe,      \* input and output of one grid construction
    mp          \* the call of run_mp that launched the workers, if any

vars == <<store, lock, args, pc, handle, task_i, task_p, status, time_left,
          deadline, beh, observed, result, now, probe, mp>>

(***************************************************************************)
(* Task definitions the workers are started with.                          *)
(***************************************************************************)
Names == <<"a", "b">>

TaskDef(values, build_grid) ==
    [names |-> Names, values |-> values, build_grid |-> build_grid]

\* Cartesian mode: the tasks (a,b) = (0,2), (1,2)
DefCart == TaskDef(<<<<0, 1>>, <<2>>>>, TRUE)
\* direct mode, the same tasks in the other order
DefSwap == TaskDef(<<<<1, 0>>, <<2, 2>>>>, FALSE)
\* direct mode, one task listed twice
DefDup == TaskDef(<<<<0, 0>>, <<2, 2>>>>, FALSE)
\* direct mode, a single task
DefOne == TaskDef(<<<<1>>, <<2>>>>, FALSE)

TaskDefs == {DefCart, DefSwap, DefDup, DefOne}

\* the grids a store left by an earlier run may hold
SavedDefs == {DefDup, DefOne}

GridOf(d) == ParamGrid(d.names, d.values, d.build_grid)

\* the arguments of run(): the task definition, fail_on_exception,
\* time_budget (budget_set: it is not None) and mp_timeout
RunArgs ==
    { [names |-> d.names, values |-> d.values, build_grid |-> d.build_grid,
       fail_on_exception |-> f, budget_set |-> b,
       time_budget |-> IF b THEN MaxTime - 1 ELSE 0, mp_timeout |-> m] :
      d \in TaskDefs, f \in BOOLEAN, b \in BOOLEAN, m \in BOOLEAN }

\* the constructor arguments of the two TaskBuffet handles of run()
\* (task_param_names None is the empty list of names)
Named(a) ==
    [named |-> a.names # <<>>, names |-> a.names, values |-> a.values,
     build_grid |-> a.build_grid]

Unnamed ==
    [named |-> FALSE, names |-> <<>>, values |-> <<>>, build_grid |-> FALSE]

\* stores left by an earlier run: any status array over a saved grid
SavedStores ==
    UNION { { Unit(st, GridOf(d)) : st \in [1..GridOf(d).nvals -> Status] } :
            d \in SavedDefs }

EmptyDict == [n \in {} |-> 0]

NoBeh == "none"

\* run_mp was not called: the workers were started one by one
NoMp == [pc |-> "none", returns |-> <<>>, outcome |-> FALSE]

InitWorkers ==
    /\ mp = NoMp
    /\ lock = 0
    /\ pc = [w \in Workers |-> "top"]
    /\ handle = [w \in Workers |-> NoHandle]
    /\ task_i = [w \in Workers |-> 0]
    /\ task_p = [w \in Workers |-> EmptyDict]
    /\ status = [w \in Workers |-> 0]
    /\ time_left = [w \in Workers |-> 0]
    /\ deadline = [w \in Workers |-> 0]
    /\ beh = [w \in Workers |-> NoBeh]
    /\ observed = [w \in Workers |-> "none"]
    /\ result = [w \in Workers |-> "none"]
    /\ now = 0

NoProbe == [values |-> <<>>, built |-> FALSE, grid |-> NoGrid]

\* every worker is started with the same arguments, on a store that is
\* absent or was left by an earlier run
Init ==
    /\ store \in {Absent} \cup SavedStores
    /\ \E a \in RunArgs : args = [w \in Workers |-> a]
    /\ InitWorkers
    /\ probe = NoProbe

(***************************************************************************)
(* run(), one action per step of the loop.  pc[w]:                         *)
(*   "top"          line 132, the head of the while loop                   *)
(*   "lock_claim"   line 141, about to enter the first with block          *)
(*   "claim"        line 143, inside it, the lock held                     *)
(*   "exec"         lines 148-184, the task function is running            *)
(*   "lock_update"  line 187, about to enter the second with block         *)
(*   "update"       line 188, inside it, the lock held                     *)
(*   "done"         run() returned                                         *)
(*   "raised"       an exception left run()                                *)
(***************************************************************************)
time_start == 0

\* time.time() read at a moment not before the last reading: any tick from
\* now on
Clock == now..MaxTime

\* lines 133-138: the time budget is checked before the lock is taken
TimeCheck(w) ==
    /\ pc[w] = "top"
    /\ IF args[w].budget_set
       THEN \E t \in Clock :
              LET tl == args[w].time_budget - (t - time_start)
              IN  /\ now' = t
                  /\ time_left' = [time_left EXCEPT ![w] = tl]
                  /\ IF tl < 0
                     THEN /\ pc' = [pc EXCEPT ![w] = "done"]
                          /\ result' = [result EXCEPT ![w] = "out_of_time"]
                     ELSE /\ pc' = [pc EXCEPT ![w] = "lock_claim"]
                          /\ UNCHANGED result
       ELSE /\ pc' = [pc EXCEPT ![w] = "lock_claim"]
            /\ UNCHANGED <<time_left, result, now>>
    /\ UNCHANGED <<store, lock, args, handle, task_i, task_p, status, deadline,
                   beh, observed, probe, mp>>

\* file_lock.Locker.acquire(): blocks until no process holds the lock
LockFree == lock = 0

\* a mutant of Exit that leaves the lock with the worker
ExitHolding(w) == w

\* TaskBuffet.__exit__ (lines 220-221): self.lock.release(); the holder of
\* the lock after worker w left its with block
Exit(w) == 0

\* TaskBuffet.__enter__ (lines 215-218) of the handle built with arguments a:
\* acquire the lock, then access_buffet.  When access_buffet raises,
\* __exit__ is not run: the exception leaves run() with the lock held.
Enter(w, a, inside) ==
    /\ LockFree
    /\ lock' = w
    /\ LET r == access_buffet(store, a)
       IN  /\ store' = r.file
           /\ handle' = [handle EXCEPT ![w] = r.handle]
           /\ observed' = [observed EXCEPT ![w] =
                  IF store.kind = "absent" THEN "none"
                  ELSE IF store.kind = "truncated" THEN "truncated"
                  ELSE IF store.torn THEN "status_only"
                  ELSE "complete"]
           /\ pc' = [pc EXCEPT ![w] = IF r.raised THEN "raised" ELSE inside]

\* line 141: with TaskBuffet(buffet_name, task_param_names,
\* task_param_values, build_grid=build_grid) as buffet
EnterClaim(w) ==
    /\ pc[w] = "lock_claim"
    /\ Enter(w, Named(args[w]), "claim")
    /\ UNCHANGED <<args, task_i, task_p, status, time_left, deadline, beh,
                   result, now, probe, mp>>

\* task_p['time_left'] = time_left, line 152
WithTimeLeft(d, tl) ==
    [n \in DOMAIN d \cup {"time_left"} |-> IF n = "time_left" THEN tl ELSE d[n]]

\* lines 143-160: get_next_free inside the with block, then __exit__
\* releases the lock; time_left is passed on to the task function
\* (in-process) or to proc.join (supervised: the join expires at deadline)
Claim(w) ==
    /\ pc[w] = "claim"
    /\ lock = w
    /\ lock' = Exit(w)
    /\ handle' = [handle EXCEPT ![w] = NoHandle]
    /\ observed' = [observed EXCEPT ![w] = "none"]
    /\ IF handle[w].task_params.none
       THEN \* "Uninitialized task_params, cannot return free params."
            /\ pc' = [pc EXCEPT ![w] = "raised"]
            /\ UNCHANGED <<store, task_i, task_p, deadline, beh, result>>
       ELSE LET i == NextFree(handle[w].task_status)
            IN  IF i < 0
                THEN \* return -1, {}; continue; the loop ends
                     /\ task_i' = [task_i EXCEPT ![w] = i]
                     /\ task_p' = [task_p EXCEPT ![w] = EmptyDict]
                     /\ pc' = [pc EXCEPT ![w] = "done"]
                     /\ result' = [result EXCEPT ![w] = "finished"]
                     /\ UNCHANGED <<store, deadline, beh>>
                ELSE LET h == Handle(MarkRunning(handle[w].task_status, i),
                                     handle[w].task_params)
                         d == GetItem(h.task_params, i)
                     IN  /\ store' = dump_buffet(h)
                         /\ task_i' = [task_i EXCEPT ![w] = i]
                         /\ task_p' = [task_p EXCEPT ![w] =
                                IF args[w].budget_set /\ ~args[w].mp_timeout
                                THEN WithTimeLeft(d, time_left[w]) ELSE d]
                         /\ deadline' = [deadline EXCEPT ![w] =
                                IF args[w].budget_set /\ args[w].mp_timeout
                                THEN now + time_left[w] ELSE 0]
                         /\ beh' = [beh EXCEPT ![w] = NoBeh]
                         /\ pc' = [pc EXCEPT ![w] = "exec"]
                         /\ UNCHANGED result
    \* time_left is assigned again at line 134 before it is read again
    /\ time_left' = [time_left EXCEPT ![w] = 0]
    /\ UNCHANGED <<args, status, now, probe, mp>>

(***************************************************************************)
(* Lines 154-184: the try block.  The task function's behaviour is an      *)
(* input: it returns a value, raises, or (supervised mode) is still        *)
(* running when the join expires.                                          *)
(***************************************************************************)
\* values a task function may return: the four status codes and one more
Returnable == Status \cup {TASK_RUNNING + 1}

\* a mutant of Except that marks the task failed under either policy
ExceptSoft(w, b) ==
    /\ beh' = [beh EXCEPT ![w] = b]
    /\ status' = [status EXCEPT ![w] = TASK_FAILED]
    /\ pc' = [pc EXCEPT ![w] = "lock_update"]

\* a mutant of Except that re-raises under either policy
ExceptRaise(w, b) ==
    /\ beh' = [beh EXCEPT ![w] = b]
    /\ pc' = [pc EXCEPT ![w] = "raised"]
    /\ UNCHANGED status

\* lines 176-184, the except clause
Except(w, b) ==
    /\ beh' = [beh EXCEPT ![w] = b]
    /\ IF args[w].fail_on_exception
       THEN /\ pc' = [pc EXCEPT ![w] = "raised"]
            /\ UNCHANGED status
       ELSE /\ status' = [status EXCEPT ![w] = TASK_FAILED]
            /\ pc' = [pc EXCEPT ![w] = "lock_update"]

\* the try block ends with status bound
Proceed(w, b, st) ==
    /\ beh' = [beh EXCEPT ![w] = b]
    /\ status' = [status EXCEPT ![w] = st]
    /\ pc' = [pc EXCEPT ![w] = "lock_update"]

\* proc.join(timeout=time_left) can be evaluated: in supervised mode
\* time_left is bound only when a time budget was given (line 134)
JoinRuns(w) == args[w].mp_timeout => args[w].budget_set

\* the task function returns r: status = task_function(**task_p), or the
\* child exits with code 0 and status = out_queue.get(); then line 174
ExecReturn(w) ==
    /\ pc[w] = "exec"
    /\ JoinRuns(w)
    /\ \E r \in Returnable :
          IF StatusValid(r) THEN Proceed(w, "returned", r)
          ELSE Except(w, "returned_invalid")
    /\ UNCHANGED <<store, lock, args, handle, task_i, task_p, time_left,
                   deadline, observed, result, now, probe, mp>>

\* the task function raises: in-process the exception reaches the except
\* clause; in supervised mode the child exits with a nonzero code and
\* line 168 sets status = TASK_FAILED
ExecRaise(w) ==
    /\ pc[w] = "exec"
    /\ JoinRuns(w)
    /\ IF args[w].mp_timeout THEN Proceed(w, "raised", TASK_FAILED)
       ELSE Except(w, "raised")
    /\ UNCHANGED <<store, lock, args, handle, task_i, task_p, time_left,
                   deadline, observed, result, now, probe, mp>>

\* supervised mode, lines 162-166: the child is alive when the join expires.
\* util.kill_proc_tree signals the descendants it listed; psutil raises
\* NoSuchProcess from terminate() or kill() when one of them has exited in
\* between, and kill_proc_tree does not catch it.
ExecTimeout(w) ==
    /\ pc[w] = "exec"
    /\ args[w].mp_timeout /\ args[w].budget_set
    /\ now' = IF deadline[w] > MaxTime THEN MaxTime
              ELSE IF deadline[w] > now THEN deadline[w] ELSE now
    /\ \E kill_raises \in BOOLEAN :
          IF kill_raises
          THEN Except(w, "timeout_kill_raised")
          ELSE Proceed(w, "timeout", TASK_AVAILABLE)
    /\ UNCHANGED <<store, lock, args, handle, task_i, task_p, time_left,
                   deadline, observed, result, probe, mp>>

\* supervised mode without a time budget: time_left is read at line 160
\* before it was ever assigned; the UnboundLocalError is raised after
\* proc.start() and caught by the except clause
ExecUnbound(w) ==
    /\ pc[w] = "exec"
    /\ ~JoinRuns(w)
    /\ Except(w, "unbound")
    /\ UNCHANGED <<store, lock, args, handle, task_i, task_p, time_left,
                   deadline, observed, result, now, probe, mp>>

(***************************************************************************)
(* Lines 186-188: the second with block.                                   *)
(***************************************************************************)
\* line 187: with TaskBuffet(buffet_name) as buffet
EnterUpdate(w) ==
    /\ pc[w] = "lock_update"
    /\ Enter(w, Unnamed, "update")
    /\ UNCHANGED <<args, task_i, task_p, status, time_left, deadline, beh,
                   result, now, probe, mp>>

\* line 188 and TaskBuffet.update_task, then __exit__ releases the lock; an
\* index past the end of the array raises IndexError
Update(w) ==
    /\ pc[w] = "update"
    /\ lock = w
    /\ lock' = Exit(w)
    /\ handle' = [handle EXCEPT ![w] = NoHandle]
    /\ observed' = [observed EXCEPT ![w] = "none"]
    /\ IF task_i[w] >= Len(handle[w].task_status)
       THEN /\ pc' = [pc EXCEPT ![w] = "raised"]
            /\ UNCHANGED <<store, task_i, task_p, status, deadline, beh>>
       ELSE /\ store' = dump_buffet(Handle(
                   SetStatus(handle[w].task_status, task_i[w], status[w]),
                   handle[w].task_params))
            /\ pc' = [pc EXCEPT ![w] = "top"]
            \* the locals of the finished iteration are assigned again
            \* before they are read
            /\ task_i' = [task_i EXCEPT ![w] = 0]
            /\ task_p' = [task_p EXCEPT ![w] = EmptyDict]
            /\ status' = [status EXCEPT ![w] = 0]
            /\ deadline' = [deadline EXCEPT ![w] = 0]
            /\ beh' = [beh EXCEPT ![w] = NoBeh]
    /\ UNCHANGED <<args, time_left, result, now, probe, mp>>

\* TaskBuffet.__del__ (lines 223-225): when the handle of a with block whose
\* __enter__ raised is collected, the lock it still holds is released
Del(w) ==
    /\ pc[w] = "raised"
    /\ lock = w
    /\ lock' = 0
    /\ UNCHANGED <<store, args, pc, handle, task_i, task_p, status, time_left,
                   deadline, beh, observed, result, now, probe, mp>>

Next ==
    \/ \E w \in Workers : TimeCheck(w)
    \/ \E w \in Workers : EnterClaim(w)
    \/ \E w \in Workers : Claim(w)
    \/ \E w \in Workers : ExecReturn(w)
    \/ \E w \in Workers : ExecRaise(w)
    \/ \E w \in Workers : ExecTimeout(w)
    \/ \E w \in Workers : ExecUnbound(w)
    \/ \E w \in Workers : EnterUpdate(w)
    \/ \E w \in Workers : Update(w)
    \/ \E w \in Workers : Del(w)

Spec == Init /\ [][Next]_vars

(***************************************************************************)
(* A writer that fails part-way through dump_buffet (lines 250-254): the   *)
(* file was truncated by bz2.open(path, 'wb') and f.close() is not         *)
(* reached, e.g. pickle.dump raises on a full disk.  The exception leaves  *)
(* the with block, whose __exit__ releases the lock.                       *)
(***************************************************************************)
ClaimDumpFails(w) ==
    /\ pc[w] = "claim"
    /\ lock = w
    /\ ~handle[w].task_params.none
    /\ NextFree(handle[w].task_status) >= 0
    /\ store' \in TornFiles(Handle(
           MarkRunning(handle[w].task_status, NextFree(handle[w].task_status)),
           handle[w].task_params))
    /\ lock' = Exit(w)
    /\ handle' = [handle EXCEPT ![w] = NoHandle]
    /\ observed' = [observed EXCEPT ![w] = "none"]
    /\ pc' = [pc EXCEPT ![w] = "raised"]
    /\ UNCHANGED <<args, task_i, task_p, status, time_left, deadline, beh,
                   result, now, probe, mp>>

UpdateDumpFails(w) ==
    /\ pc[w] = "update"
    /\ lock = w
    /\ task_i[w] < Len(handle[w].task_status)
    /\ store' \in TornFiles(Handle(
           SetStatus(handle[w].task_status, task_i[w], status[w]),
           handle[w].task_params))
    /\ lock' = Exit(w)
    /\ handle' = [handle EXCEPT ![w] = NoHandle]
    /\ observed' = [observed EXCEPT ![w] = "none"]
    /\ pc' = [pc EXCEPT ![w] = "raised"]
    /\ UNCHANGED <<args, task_i, task_p, status, time_left, deadline, beh,
                   result, now, probe, mp>>

NextCrash ==
    \/ Next
    \/ \E w \in Workers : ClaimDumpFails(w)
    \/ \E w \in Workers : UpdateDumpFails(w)

\* the workers on a store that starts absent, with writers that may fail
InitCrash ==
    /\ store = Absent
    /\ \E a \in RunArgs : args = [w \in Workers |-> a]
    /\ InitWorkers
    /\ probe = NoProbe

SpecCrash == InitCrash /\ [][NextCrash]_vars

(***************************************************************************)
(* Cartesian grid construction on its own: ParamGrid(names, values,        *)
(* meshgrid=True) applied to bounded value lists.                          *)
(***************************************************************************)
GridNames == <<"a", "b", "c">>

GridValues == 0..3

\* value lists of 1..MaxLen distinct values, in increasing order
ValueLists ==
    { l \in UNION { [1..n -> GridValues] : n \in 1..MaxLen } :
        \A j, k \in DOMAIN l : j < k => l[j] < l[k] }

\* two or three parameters
GridInputs == [1..2 -> ValueLists] \cup [1..3 -> ValueLists]

InitGrid ==
    /\ store = Absent
    /\ args = [w \in Workers |-> CHOOSE a \in RunArgs : TRUE]
    /\ InitWorkers
    /\ \E v \in GridInputs : probe = [values |-> v, built |-> FALSE, grid |-> NoGrid]

BuildGrid ==
    /\ ~probe.built
    /\ probe' = [probe EXCEPT
           !.built = TRUE,
           !.grid = ParamGrid(SubSeq(GridNames, 1, Len(probe.values)),
                              probe.values, TRUE)]
    /\ UNCHANGED <<store, lock, args, pc, handle, task_i, task_p, status,
                   time_left, deadline, beh, observed, result, now, mp>>

SpecGrid == InitGrid /\ [][BuildGrid]_vars

(***************************************************************************)
(* Properties.                                                             *)
(***************************************************************************)
\* worker w has claimed an index and its completion is not yet written
Holding(w) == pc[w] \in {"exec", "lock_update", "update"}

\* C1 -- Exclusivity.  With the same task definition on every worker, an
\* index a worker has claimed stays RUNNING in the file until that worker
\* completes it, so no second claim of it can happen in between, and no two
\* workers hold (or execute) the same claimed index at the same time.
C1_Exclusivity ==
    \A w \in Workers :
        Holding(w) =>
            /\ store.kind = "unit"
            /\ task_i[w] < Len(store.task_status)
            /\ store.task_status[task_i[w] + 1] = TASK_RUNNING
            /\ \A v \in Workers \ {w} : Holding(v) => task_i[v] # task_i[w]

\* two workers execute their task functions at the same time
C1_Witness ==
    \E w, v \in Workers : w # v /\ pc[w] = "exec" /\ pc[v] = "exec"

\* C2 -- Every exit from a locked section leaves the lock released: a worker
\* that is not inside a with block does not hold the lock.
C2_LockReleasedOnEveryExit ==
    \A w \in Workers : lock = w => pc[w] \in {"claim", "update"}

\* C3 -- Every load of the store finds a complete generation (status array
\* and grid of one dump_buffet call), also after a writer failed part-way.
C3_LoadsSeeCompleteGeneration ==
    \A w \in Workers : observed[w] \in {"none", "complete"}

(***************************************************************************)
(* Nested loops over value lists, as sequences of value tuples.            *)
(***************************************************************************)
\* for v1 in vs[1]: for v2 in vs[2]: ... -- the last list varies fastest
RECURSIVE LastFastest(_)
LastFastest(vs) ==
    IF vs = <<>> THEN << <<>> >>
    ELSE LET rest == LastFastest(Tail(vs))
             n == Len(rest)
         IN  [k \in 1..(Len(vs[1]) * n) |->
                 <<vs[1][((k - 1) \div n) + 1]>> \o rest[((k - 1) % n) + 1]]

\* ... for v2 in vs[2]: for v1 in vs[1] -- the first list varies fastest
RECURSIVE FirstFastest(_)
FirstFastest(vs) ==
    IF vs = <<>> THEN << <<>> >>
    ELSE LET rest == FirstFastest(Tail(vs))
             m == Len(vs[1])
         IN  [k \in 1..(m * Len(rest)) |->
                 <<vs[1][((k - 1) % m) + 1]>> \o rest[((k - 1) \div m) + 1]]

\* the tasks of the grid just built, each as the tuple of its parameter
\* values in the order the parameters were listed
BuiltTasks ==
    [i \in 1..probe.grid.nvals |->
        [q \in 1..Len(probe.values) |->
            GetItem(probe.grid, i - 1)[GridNames[q]]]]

\* C4 as stated -- Cartesian mode orders the tasks as a nested loop in which
\* the last-listed parameter varies fastest.
C4_LastListedFastest ==
    probe.built => BuiltTasks = LastFastest(probe.values)

\* C4 amended -- Cartesian mode orders the tasks as a nested loop in which
\* the first-listed parameter varies fastest and the last-listed slowest;
\* every combination of values appears at exactly one index.
C4_FirstListedFastest ==
    probe.built =>
        /\ BuiltTasks = FirstFastest(probe.values)
        /\ probe.grid.nvals = Prod([q \in 1..Len(probe.values) |-> Len(probe.values[q])])
        /\ \A c \in Range(LastFastest(probe.values)) :
               Cardinality({i \in 1..probe.grid.nvals : BuiltTasks[i] = c}) = 1

\* names=[a,b], values=[[0,1],[2,3]] gives (a,b) = (0,2),(1,2),(0,3),(1,3)
C4_Witness ==
    /\ probe.built
    /\ probe.values = <<<<0, 1>>, <<2, 3>>>>
    /\ BuiltTasks = << <<0, 2>>, <<1, 2>>, <<0, 3>>, <<1, 3>> >>

\* the locked section of a completion is entered or about to be
Completing(w) == pc[w] \in {"lock_update", "update"}

\* C5 -- Timeout requeue.  In supervised mode, when the child is still
\* alive at the end of the wait, the status recorded for the claimed task is
\* AVAILABLE, under both failure policies.
C5_TimeoutRequeuesAsAvailable ==
    \A w \in Workers :
        beh[w] \in {"timeout", "timeout_kill_raised"} =>
            /\ Completing(w)
            /\ status[w] = TASK_AVAILABLE

\* C6 -- Fail-fast.  When the task function raises or returns an invalid
\* status under fail_on_exception, the exception leaves run(): no
\* completion is written and the claimed task stays RUNNING in the file.
C6_FailFastStops ==
    \A w \in Workers :
        (args[w].fail_on_exception /\ beh[w] \in {"raised", "returned_invalid"}) =>
            /\ pc[w] = "raised"
            /\ store.task_status[task_i[w] + 1] = TASK_RUNNING

C8_OnlyValidOutcomesWritten ==
    [][\A w \in Workers :
          /\ beh'[w] = "returned_invalid" =>
                 IF args[w].fail_on_exception THEN pc'[w] = "raised"
                 ELSE Completing(w)' /\ status'[w] = TASK_FAILED
          /\ Completing(w)' =>
                 status'[w] \in {TASK_SUCCESS, TASK_FAILED, TASK_AVAILABLE}
          /\ (pc[w] = "update" /\ pc'[w] = "top") =>
                 store'.task_status[task_i[w] + 1] \in
                     {TASK_SUCCESS, TASK_FAILED, TASK_AVAILABLE}]_vars

\* a worker under fail-soft whose task function returned an invalid value is
\* about to write FAILED
C8_Witness ==
    \E w \in Workers :
        /\ beh[w] = "returned_invalid"
        /\ pc[w] = "update"
        /\ status[w] = TASK_FAILED

Count(task_status, c) ==
    Cardinality({k \in DOMAIN task_status : task_status[k] = c})

\* C9 -- In every reachable state the status counts add up to the number of
\* tasks: every entry of the persisted array, and of the array a worker
\* holds in memory inside a locked section, is one of the four statuses.
C9_StatusCountsAddUp ==
    /\ store.kind = "unit" =>
           Count(store.task_status, TASK_SUCCESS)
             + Count(store.task_status, TASK_FAILED)
             + Count(store.task_status, TASK_RUNNING)
             + Count(store.task_status, TASK_AVAILABLE) = Len(store.task_status)
    /\ \A w \in Workers :
           Count(handle[w].task_status, TASK_SUCCESS)
             + Count(handle[w].task_status, TASK_FAILED)
             + Count(handle[w].task_status, TASK_RUNNING)
             + Count(handle[w].task_status, TASK_AVAILABLE)
               = Len(handle[w].task_status)

\* both tasks of a two-task buffet are claimed, by different workers, and
\* one of them is about to write its completion
C9_Witness ==
    /\ store.kind = "unit"
    /\ Count(store.task_status, TASK_RUNNING) = 2
    /\ \E w, v \in Workers :
           /\ w # v
           /\ pc[w] = "update"
           /\ pc[v] = "exec"
           /\ task_i[w] # task_i[v]

\* the first index of grid g whose parameter dictionary is d, -1 if none
FirstIndexOf(d, g) ==
    IF \E i \in 0..(g.nvals - 1) : GetItem(g, i) = d
    THEN CHOOSE i \in 0..(g.nvals - 1) :
             /\ GetItem(g, i) = d
             /\ \A j \in 0..(i - 1) : GetItem(g, j) # d
    ELSE -1

\* the carry-over of C10 between the file before and after a merge into the
\* requested grid
CarriedOver(old, new, requested) ==
    /\ new.kind = "unit"
    /\ new.task_params = requested
    /\ Len(new.task_status) = requested.nvals
    /\ \A p \in 0..(old.task_params.nvals - 1) :
           new.task_status[FirstIndexOf(GetItem(old.task_params, p), requested) + 1]
               = old.task_status[p + 1]
    /\ \A i \in 0..(requested.nvals - 1) :
           (\A p \in 0..(old.task_params.nvals - 1) :
                FirstIndexOf(GetItem(old.task_params, p), requested) # i)
               => new.task_status[i + 1] = TASK_AVAILABLE

\* C10 -- Merge carry-over.  When a worker's load replaces the stored grid
\* by a different requested grid, the new status array has the requested
\* length, every saved task's status is at the first requested index with an
\* identical parameter dictionary, the unmatched indices are AVAILABLE, and
\* the merged array and requested grid are what the file holds.
C10_MergeCarriesOver ==
    [][\A w \in Workers :
          (/\ pc[w] = "lock_claim"
           /\ pc'[w] = "claim"
           /\ store.kind = "unit"
           /\ store'.task_params # store.task_params)
              => CarriedOver(store, store', GridOf(args[w]))]_vars

\* worker w is about to load a store whose grid is structurally equal to the
\* grid it requests
SameGridLoad(w) ==
    /\ pc[w] = "lock_claim"
    /\ LockFree
    /\ store.kind = "unit"
    /\ store.task_params = GridOf(args[w])

\* C11 -- Merge idempotence.  A load that requests a grid structurally equal
\* to the stored one returns the stored status array, leaves the file as it
\* is and does not call dump_buffet; the same load repeated on the result,
\* with any arguments that request the same grid, gives the same result.
C11_MergeIdempotent ==
    [][\A w \in Workers :
          (SameGridLoad(w) /\ pc'[w] # pc[w]) =>
              LET r == access_buffet(store, Named(args[w]))
              IN  /\ pc'[w] = "claim"
                  /\ store' = store
                  /\ handle'[w] = Handle(store.task_status, store.task_params)
                  /\ ~r.raised /\ ~r.wrote
                  /\ \A a \in RunArgs :
                         GridOf(a) = store.task_params =>
                             access_buffet(r.file, Named(a)) = r]_vars

\* a worker has loaded, under the lock, the store that another worker's load
\* already held the requested grid of, and got the stored status array
C11_Witness ==
    \E w, v \in Workers :
        /\ w # v
        /\ pc[v] = "exec"
        /\ pc[w] = "claim"
        /\ observed[w] = "complete"
        /\ store.task_params = GridOf(args[w])
        /\ handle[w].task_status = store.task_status
        /\ TASK_RUNNING \in Range(store.task_status)

\* some task of the saved grid has no task with an identical parameter
\* dictionary in the requested grid
Unmatched(saved, requested) ==
    \E p \in 0..(saved.nvals - 1) : FirstIndexOf(GetItem(saved, p), requested) = -1

\* C12 -- Merge failure.  When the stored grid has a task that the requested
\* grid lacks, the load raises the merge error and the file holds the status
\* array and grid it held before.
C12_MergeFailureLeavesUnit ==
    [][\A w \in Workers :
          (/\ pc[w] = "lock_claim"
           /\ pc'[w] # pc[w]
           /\ store.kind = "unit"
           /\ Unmatched(store.task_params, GridOf(args[w])))
              => /\ pc'[w] = "raised"
                 /\ access_buffet(store, Named(args[w])).error = "merge"
                 /\ store' = store]_vars

\* a worker's load has failed on a store that holds statuses of an earlier
\* run and a task its requested grid lacks
C12_Witness ==
    \E w \in Workers :
        /\ pc[w] = "raised"
        /\ observed[w] = "complete"
        /\ store.kind = "unit"
        /\ Unmatched(store.task_params, GridOf(args[w]))
        /\ TASK_SUCCESS \in Range(store.task_status)

\* the indices of the array whose status is AVAILABLE
AvailableIn(task_status) ==
    {i \in 0..(Len(task_status) - 1) : task_status[i + 1] = TASK_AVAILABLE}

\* C13 -- claim_next.  On a handle with a grid, get_next_free returns the
\* lowest AVAILABLE index with its parameter dictionary, and the file then
\* holds the loaded array with exactly that entry set to RUNNING; when no
\* entry is AVAILABLE it returns (-1, {}) and the file is as it was.
C13_ClaimNext ==
    [][\A w \in Workers :
          (pc[w] = "claim" /\ pc'[w] # pc[w] /\ ~handle[w].task_params.none) =>
              LET ts == handle[w].task_status
                  g == handle[w].task_params
              IN  IF AvailableIn(ts) = {}
                  THEN /\ task_i'[w] = -1
                       /\ task_p'[w] = EmptyDict
                       /\ store' = store
                       /\ pc'[w] = "done"
                  ELSE /\ task_i'[w] \in AvailableIn(ts)
                       /\ \A j \in AvailableIn(ts) : task_i'[w] <= j
                       /\ \A n \in DOMAIN GetItem(g, task_i'[w]) :
                              task_p'[w][n] = GetItem(g, task_i'[w])[n]
                       /\ store'.kind = "unit"
                       /\ store'.task_params = g
                       /\ Len(store'.task_status) = Len(ts)
                       /\ \A k \in 0..(Len(ts) - 1) :
                              store'.task_status[k + 1] =
                                  IF k = task_i'[w] THEN TASK_RUNNING ELSE ts[k + 1]
                       /\ pc'[w] = "exec"]_vars

\* one worker holds the second task, claimed when the first was no longer
\* available, and the other worker was returned (-1, {})
C13_Witness ==
    \E w, v \in Workers :
        /\ pc[w] = "exec"
        /\ task_i[w] = 1
        /\ store.task_status[1] # TASK_AVAILABLE
        /\ pc[v] = "done"
        /\ result[v] = "finished"
        /\ task_i[v] = -1

(***************************************************************************)
(* Legacy stores: a file that holds the pickled status array and no grid   *)
(* (open_buffet lines 266-272 set task_params to None).  The workers call  *)
(* run() with or without a task definition, and buffet_cli (cli.py) resets *)
(* statuses.                                                               *)
(***************************************************************************)
LegacyStores ==
    UNION { { Unit(st, NoGrid) : st \in [1..n -> Status] } : n \in 1..MaxLen }

\* run(task_function, None, None, buffet_name, ...): no task definition
NoDef == [names |-> <<>>, values |-> <<>>, build_grid |-> FALSE]

LegacyArgs ==
    { [names |-> d.names, values |-> d.values, build_grid |-> d.build_grid,
       fail_on_exception |-> f, budget_set |-> b,
       time_budget |-> IF b THEN MaxTime - 1 ELSE 0, mp_timeout |-> FALSE] :
      d \in {DefOne, DefCart, NoDef}, f \in BOOLEAN, b \in BOOLEAN }

InitLegacy ==
    /\ store \in LegacyStores
    /\ \E a \in LegacyArgs : args = [w \in Workers |-> a]
    /\ InitWorkers
    /\ probe = NoProbe

\* cli.py lines 17-27: buffet.task_status[failed] = TASK_AVAILABLE and
\* buffet.task_status[run] = TASK_AVAILABLE
ResetStatus(task_status, reset_failed, reset_running) ==
    [k \in DOMAIN task_status |->
        IF \/ reset_failed /\ task_status[k] = TASK_FAILED
           \/ reset_running /\ task_status[k] = TASK_RUNNING
        THEN TASK_AVAILABLE ELSE task_status[k]]

\* cli.py buffet_cli, lines 12-32, called by main with -f and/or -r on a
\* file that exists: the whole with block, entered when the lock is free
buffet_cli ==
    /\ LockFree
    /\ store.kind # "absent"
    /\ \E reset_failed, reset_running \in BOOLEAN :
          /\ reset_failed \/ reset_running
          /\ LET r == access_buffet(store, Unnamed)
             IN  /\ ~r.raised
                 /\ store' = dump_buffet(Handle(
                        ResetStatus(r.handle.task_status, reset_failed, reset_running),
                        r.handle.task_params))
    /\ UNCHANGED <<lock, args, pc, handle, task_i, task_p, status, time_left,
                   deadline, beh, observed, result, now, probe, mp>>

NextLegacy ==
    \/ \E w \in Workers : TimeCheck(w)
    \/ \E w \in Workers : EnterClaim(w)
    \/ \E w \in Workers : Claim(w)
    \/ \E w \in Workers : Del(w)
    \/ buffet_cli

SpecLegacy == InitLegacy /\ [][NextLegacy]_vars

\* C14 -- Legacy load.  Loading a file that holds a status array and no
\* grid does not raise, with or without a task definition: the handle gets
\* the stored array and no grid and the file is as it was; get_next_free on
\* that handle raises and leaves the file as it was.
C14_LegacyLoadNeverFails ==
    [][\A w \in Workers :
          /\ (/\ pc[w] = "lock_claim"
              /\ pc'[w] # pc[w]
              /\ store.kind = "unit"
              /\ store.task_params.none)
                 => /\ pc'[w] = "claim"
                    /\ handle'[w] = Handle(store.task_status, NoGrid)
                    /\ store' = store
          /\ (/\ pc[w] = "claim"
              /\ pc'[w] # pc[w]
              /\ handle[w].task_params.none)
                 => /\ pc'[w] = "raised"
                    /\ store' = store]_vars

(***************************************************************************)
(* Draining: run() without a time budget, under fail_on_exception=False,   *)
(* with a task function that returns TASK_SUCCESS or TASK_FAILED or        *)
(* raises.  Every worker process keeps running (weak fairness of its       *)
(* steps) and a worker that waits for the lock gets it (strong fairness of *)
(* the acquisition in __enter__).                                          *)
(***************************************************************************)
DrainArgs == {a \in RunArgs : ~a.fail_on_exception /\ ~a.budget_set}

InitDrain ==
    /\ store \in {Absent} \cup SavedStores
    /\ \E a \in DrainArgs : args = [w \in Workers |-> a]
    /\ InitWorkers
    /\ probe = NoProbe

\* the task function returns TASK_SUCCESS or TASK_FAILED
ExecReturnOutcome(w) ==
    /\ ExecReturn(w)
    /\ beh'[w] = "returned"
    /\ status'[w] \in {TASK_SUCCESS, TASK_FAILED}

WorkerStep(w) ==
    \/ TimeCheck(w)
    \/ Claim(w)
    \/ ExecReturnOutcome(w)
    \/ ExecRaise(w)
    \/ ExecUnbound(w)
    \/ Update(w)

\* self.lock.acquire() of __enter__ (line 216), in either with block: the
\* step by which worker w gets the lock
Acquire(w) ==
    /\ pc[w] \in {"lock_claim", "lock_update"}
    /\ LockFree
    /\ lock' = w

NextDrain ==
    \/ \E w \in Workers : TimeCheck(w)
    \/ \E w \in Workers : EnterClaim(w)
    \/ \E w \in Workers : Claim(w)
    \/ \E w \in Workers : ExecReturnOutcome(w)
    \/ \E w \in Workers : ExecRaise(w)
    \/ \E w \in Workers : ExecUnbound(w)
    \/ \E w \in Workers : EnterUpdate(w)
    \/ \E w \in Workers : Update(w)
    \/ \E w \in Workers : Del(w)

SpecDrain ==
    /\ InitDrain
    /\ [][NextDrain]_vars
    /\ \A w \in Workers :
           /\ WF_vars(WorkerStep(w))
           /\ SF_lock(Acquire(w))

\* every worker returned False and every task is SUCCESS or FAILED
Drained ==
    /\ \A w \in Workers : pc[w] = "done" /\ result[w] = "finished"
    /\ store.kind = "unit"
    /\ \A k \in DOMAIN store.task_status :
           store.task_status[k] \in {TASK_SUCCESS, TASK_FAILED}

\* the file is absent, or it holds a grid whose tasks the requested grid all
\* has and no entry that an earlier run left RUNNING
CleanStart ==
    \/ store.kind = "absent"
    \/ /\ store.kind = "unit"
       /\ \A w \in Workers : ~Unmatched(store.task_params, GridOf(args[w]))
       /\ TASK_RUNNING \notin Range(store.task_status)

\* C15 as stated -- Drain liveness.  Without a time budget, under fail-soft,
\* with the same task definition on every worker, a fair lock and task
\* functions that return SUCCESS or FAILED or raise, every worker eventually
\* returns False and every task is then SUCCESS or FAILED.
C15_Drain == <>[]Drained

\* C15 amended -- the same, for workers started on a file that is absent or
\* holds a grid the requested definition covers and no RUNNING entry.
C15_DrainFromCleanStart == CleanStart => <>[]Drained

\* the two tasks of the Cartesian definition are drained, one failed and one
\* succeeded (no saved store holds both, so this run executed a task)
C15_Witness ==
    /\ Drained
    /\ store.task_params = GridOf(DefCart)
    /\ store.task_status = <<TASK_FAILED, TASK_SUCCESS>>

(***************************************************************************)
(* run_mp (lines 50-65): n_worker calls of run() are submitted to a pool   *)
(* with the same arguments; the launcher collects their return values in   *)
(* the order of submission and reduces them with np.any.                   *)
(*   mp.pc "get"      line 59, waiting in f.get() of the next worker       *)
(*         "returned" line 62 or 65                                        *)
(*         "raised"   f.get() re-raised the exception of a worker          *)
(***************************************************************************)
\* a mutant of np_any that reduces with np.all
np_all(returns) == \A k \in DOMAIN returns : returns[k]

\* np.any(returns), line 60
np_any(returns) == \E k \in DOMAIN returns : returns[k]

\* the arguments run_mp passes on to every worker
MpArgs == {a \in RunArgs : a.values \in {DefCart.values, DefOne.values}}

InitMp ==
    /\ store = Absent
    /\ \E a \in MpArgs : args = [w \in Workers |-> a]
    /\ mp = [pc |-> "get", returns |-> <<>>, outcome |-> FALSE]
    /\ lock = 0
    /\ pc = [w \in Workers |-> "top"]
    /\ handle = [w \in Workers |-> NoHandle]
    /\ task_i = [w \in Workers |-> 0]
    /\ task_p = [w \in Workers |-> EmptyDict]
    /\ status = [w \in Workers |-> 0]
    /\ time_left = [w \in Workers |-> 0]
    /\ deadline = [w \in Workers |-> 0]
    /\ beh = [w \in Workers |-> NoBeh]
    /\ observed = [w \in Workers |-> "none"]
    /\ result = [w \in Workers |-> "none"]
    /\ now = 0
    /\ probe = NoProbe

\* line 59, one f.get(): it returns what the worker's run() returned (True
\* when it ran out of time), or raises what run() raised
MpGet ==
    /\ mp.pc = "get"
    /\ Len(mp.returns) < NWorkers
    /\ LET w == Len(mp.returns) + 1
       IN  /\ pc[w] \in {"done", "raised"}
           /\ mp' = IF pc[w] = "done"
                    THEN [mp EXCEPT !.returns = Append(@, result[w] = "out_of_time")]
                    ELSE [mp EXCEPT !.pc = "raised"]
    /\ UNCHANGED <<store, lock, args, pc, handle, task_i, task_p, status,
                   time_left, deadline, beh, observed, result, now, probe>>

\* lines 60-65
MpReturn ==
    /\ mp.pc = "get"
    /\ Len(mp.returns) = NWorkers
    /\ mp' = [mp EXCEPT !.pc = "returned", !.outcome = np_any(mp.returns)]
    /\ UNCHANGED <<store, lock, args, pc, handle, task_i, task_p, status,
                   time_left, deadline, beh, observed, result, now, probe>>

NextMp ==
    \/ \E w \in Workers : TimeCheck(w)
    \/ \E w \in Workers : EnterClaim(w)
    \/ \E w \in Workers : Claim(w)
    \/ \E w \in Workers : ExecReturn(w)
    \/ \E w \in Workers : ExecRaise(w)
    \/ \E w \in Workers : ExecTimeout(w)
    \/ \E w \in Workers : ExecUnbound(w)
    \/ \E w \in Workers : EnterUpdate(w)
    \/ \E w \in Workers : Update(w)
    \/ MpGet
    \/ MpReturn

SpecMp == InitMp /\ [][NextMp]_vars

\* C16 -- run_mp returns True exactly when some worker returned True (ran
\* out of time) and False otherwise, and it returns only when every worker
\* has returned.
C16_AggregateOutcome ==
    mp.pc = "returned" =>
        /\ \A w \in Workers : pc[w] = "done"
        /\ mp.outcome <=> (\E w \in Workers : result[w] = "out_of_time")

\* run_mp returned True although one of its workers returned False
C16_Witness ==
    /\ mp.pc = "returned"
    /\ mp.outcome
    /\ \E w \in Workers : result[w] = "finished"

\* the status array has one entry per task of the grid
SizedToGrid(task_status, g) ==
    /\ Len(task_status) = g.nvals
    /\ \A k \in DOMAIN g.values : Len(g.values[k]) = Len(task_status)

\* C17 -- Whenever the file holds a grid, the status array it holds has one
\* entry per task of that grid (nvals); the same holds for the array and
\* grid of a handle inside a locked section.
C17_StatusLengthIsNvals ==
    /\ (store.kind = "unit" /\ ~store.task_params.none) =>
           SizedToGrid(store.task_status, store.task_params)
    /\ \A w \in Workers :
           (pc[w] \in {"claim", "update"} /\ ~handle[w].task_params.none) =>
               SizedToGrid(handle[w].task_status, handle[w].task_params)

\* the file holds the two tasks of the Cartesian definition, one claimed and
\* one completed, and a worker has just loaded it for its next claim
C17_Witness ==
    /\ store.kind = "unit"
    /\ store.task_params = GridOf(DefCart)
    /\ store.task_status = <<TASK_RUNNING, TASK_SUCCESS>>
    /\ \E w \in Workers :
           /\ pc[w] = "claim"
           /\ observed[w] = "complete"
           /\ handle[w].task_status = store.task_status

\* C18 -- Time-budget check.  With a time budget, an iteration that finds
\* the remaining time less than or equal to 0 ends run() with "ran out of
\* time" and touches neither the lock nor the file; with time remaining the
\* worker goes on to the lock.
C18_StopsWhenNoTimeLeft ==
    [][\A w \in Workers :
          (pc[w] = "top" /\ args[w].budget_set /\ pc'[w] # pc[w]) =>
              IF time_left'[w] <= 0
              THEN /\ pc'[w] = "done"
                   /\ result'[w] = "out_of_time"
                   /\ lock' = lock
                   /\ store' = store
              ELSE pc'[w] = "lock_claim"]_vars

\* C19 -- Under fail_on_exception in supervised mode, a task function that
\* raises in the child (the child exits with a nonzero code) makes run()
\* raise, as a raise in in-process mode does: the worker neither goes on to
\* a completion nor claims again.
C19_SupervisedRaiseAborts ==
    \A w \in Workers :
        (/\ args[w].fail_on_exception
         /\ args[w].mp_timeout
         /\ beh[w] = "raised")
            => pc[w] = "raised"

\* worker w writes the file in this step as the holder of the lock: inside
\* its with block, or in the __enter__ that has just acquired the lock
WritesHolding(w) ==
    \/ lock = w /\ pc[w] \in {"claim", "update"}
    \/ lock = 0 /\ lock' = w /\ pc[w] \in {"lock_claim", "lock_update"}

\* C20 -- Lock discipline.  Every step that changes the file is taken by
\* the one worker that holds the lock; a worker that holds the lock stands
\* inside a with block or was left there by an __enter__ that raised, so
\* no worker holds the lock while its task function executes, and a worker
\* that gets the lock finds no other holder.
C20_LockDiscipline ==
    [][/\ store' # store =>
              /\ \E w \in Workers : WritesHolding(w)
              /\ \A w, v \in Workers :
                     (WritesHolding(w) /\ WritesHolding(v)) => w = v
       /\ \A w \in Workers :
              /\ pc'[w] \in {"exec", "top", "lock_claim", "lock_update", "done"}
                     => lock' # w
              /\ (lock' = w /\ lock # w) => lock = 0]_vars

\* one worker completes a task, holding the lock, while the other worker's
\* task function is executing
C20_Witness ==
    \E w, v \in Workers :
        /\ w # v
        /\ pc[v] = "exec"
        /\ pc[w] = "update"
        /\ lock = w
        /\ beh[v] = NoBeh

\* C21 -- Single creation.  The file comes into being in one step, the
\* first __enter__ of some worker, which writes the requested grid with every
\* entry AVAILABLE; from then on the file exists and keeps its grid, every
\* __enter__ loads the array the file holds and leaves the file as it is, and
\* an entry that is RUNNING, SUCCESS or FAILED becomes AVAILABLE only by the
\* completion of the worker that holds it.
C21_SingleCreation ==
    [][/\ (store.kind = "absent" /\ store' # store) =>
              \E w \in Workers :
                  /\ pc[w] = "lock_claim" /\ pc'[w] = "claim"
                  /\ observed'[w] = "none"
                  /\ store' = Unit(AllAvailable(GridOf(args[w]).nvals),
                                   GridOf(args[w]))
       /\ store.kind = "unit" =>
              /\ store'.kind = "unit"
              /\ store'.task_params = store.task_params
              /\ \A w \in Workers :
                     (pc[w] \in {"lock_claim", "lock_update"} /\ pc'[w] # pc[w]) =>
                         /\ store' = store
                         /\ observed'[w] = "complete"
                         /\ handle'[w].task_status = store.task_status
              /\ \A k \in DOMAIN store.task_status :
                     (/\ store.task_status[k] # TASK_AVAILABLE
                      /\ store'.task_status[k] = TASK_AVAILABLE) =>
                         \E w \in Workers :
                             /\ pc[w] = "update"
                             /\ task_i[w] = k - 1
                             /\ status[w] = TASK_AVAILABLE]_vars

\* one worker created the file and executes its first task; another has
\* loaded the file and found that task RUNNING
C21_Witness ==
    \E w, v \in Workers :
        /\ w # v
        /\ pc[w] = "exec"
        /\ pc[v] = "claim"
        /\ observed[v] = "complete"
        /\ handle[v].task_status[task_i[w] + 1] = TASK_RUNNING
        /\ result[v] = "none"

(***************************************************************************)
(* Workers started with different task definitions on the same buffet: a   *)
(* re-ordered grid (DefSwap against DefCart) or an extended one (DefCart   *)
(* against DefOne).  Every load with a definition that differs from the    *)
(* stored grid goes through the merge of check_merge_buffets.              *)
(***************************************************************************)
DivergeArgs ==
    {a \in RunArgs :
        /\ ~a.budget_set /\ ~a.mp_timeout
        /\ a.values \in {DefCart.values, DefSwap.values, DefOne.values}}

InitDiverge ==
    /\ store = Absent
    /\ args \in [Workers -> DivergeArgs]
    /\ InitWorkers
    /\ probe = NoProbe

NextDiverge ==
    \/ \E w \in Workers : TimeCheck(w)
    \/ \E w \in Workers : EnterClaim(w)
    \/ \E w \in Workers : Claim(w)
    \/ \E w \in Workers : ExecReturn(w)
    \/ \E w \in Workers : ExecRaise(w)
    \/ \E w \in Workers : EnterUpdate(w)
    \/ \E w \in Workers : Update(w)
    \/ \E w \in Workers : Del(w)

SpecDiverge == InitDiverge /\ [][NextDiverge]_vars

\* C22 -- A completion is recorded against the claimed task.  The step that
\* writes a completion sets the status of an entry whose parameter
\* dictionary is the one the worker executed, and leaves every other entry
\* as the file held it, also when another worker's load merged a different
\* grid into the file after the claim.
C22_CompletionLandsOnClaimedTask ==
    [][\A w \in Workers :
          (pc[w] = "update" /\ pc'[w] = "top") =>
              \E k \in 0..(store'.task_params.nvals - 1) :
                  /\ GetItem(store'.task_params, k) = task_p[w]
                  /\ store'.task_status[k + 1] = status[w]
                  /\ \A j \in 0..(store'.task_params.nvals - 1) :
                         j # k => store'.task_status[j + 1] = store.task_status[j + 1]]_vars

\* the entries in which two status arrays of one length differ
Changed(old, new) == {k \in DOMAIN old : new[k] # old[k]}

\* C23 -- No lost update.  Inside a locked section the handle holds the array
\* and grid the file holds; the claim and the completion that end the
\* section change exactly one entry of the file (the claimed index) and leave
\* every other entry and the grid as the file held them.
C23_NoLostUpdate ==
    [][\A w \in Workers :
          /\ pc'[w] \in {"claim", "update"} =>
                 /\ handle'[w].task_status = store'.task_status
                 /\ handle'[w].task_params = store'.task_params
          /\ (\/ pc[w] = "claim" /\ pc'[w] = "exec"
              \/ pc[w] = "update" /\ pc'[w] = "top") =>
                 /\ store'.task_params = store.task_params
                 /\ Len(store'.task_status) = Len(store.task_status)
                 /\ Changed(store.task_status, store'.task_status) =
                        {(IF pc[w] = "claim" THEN task_i'[w] ELSE task_i[w]) + 1}]_vars

\* a worker is about to write its completion on an array in which it finds
\* the claim another worker persisted after its own claim
C23_Witness ==
    \E w, v \in Workers :
        /\ w # v
        /\ pc[w] = "update"
        /\ pc[v] = "exec"
        /\ task_i[v] > task_i[w]
        /\ handle[w].task_status[task_i[v] + 1] = TASK_RUNNING
        /\ handle[w].task_status[task_i[w] + 1] = TASK_RUNNING

\* the entry of the file after a step that holds the task of entry k before
\* it: the same entry, or, when a merge replaced the grid, the first entry of
\* the new grid with that task's parameter dictionary
EntryAfter(k) ==
    IF store'.task_params = store.task_params THEN k
    ELSE FirstIndexOf(GetItem(store.task_params, k - 1), store'.task_params) + 1

\* C24 -- Terminal statuses are stable.  With the same task definition on
\* every worker, no step of a worker (load, claim or completion) changes the
\* status of a task that the file holds as SUCCESS or FAILED, and a claim
\* takes an entry that the file holds as AVAILABLE, so a task is executed
\* again only after a completion wrote AVAILABLE.
C24_TerminalStatusesStable ==
    [][/\ store.kind = "unit" =>
              \A k \in DOMAIN store.task_status :
                  store.task_status[k] \in {TASK_SUCCESS, TASK_FAILED} =>
                      store'.task_status[EntryAfter(k)] = store.task_status[k]
       /\ \A w \in Workers :
              (pc[w] = "claim" /\ pc'[w] = "exec") =>
                  store.task_status[task_i'[w] + 1] = TASK_AVAILABLE]_vars

\* C25 -- Supervised mode without a time budget.  With mp_timeout and no
\* time_budget the try block is left only by the child's exit: the child
\* returned a status, which goes on to the completion when it is SUCCESS,
\* FAILED or AVAILABLE, or the task function raised or returned an invalid
\* value; the wait itself neither expires nor fails.
C25_SupervisedWithoutBudgetWaits ==
    [][\A w \in Workers :
          (/\ args[w].mp_timeout
           /\ ~args[w].budget_set
           /\ pc[w] = "exec"
           /\ pc'[w] # "exec")
              => /\ beh'[w] \in {"returned", "raised", "returned_invalid"}
                 /\ beh'[w] = "returned" =>
                        /\ pc'[w] = "lock_update"
                        /\ status'[w] \in {TASK_SUCCESS, TASK_FAILED, TASK_AVAILABLE}]_vars

\* C26 -- A successful merge loses no recorded work.  When a load replaces
\* the stored grid by the requested one, the merged status array has as many
\* entries SUCCESS, as many FAILED and as many RUNNING as the saved array.
C26_MergeKeepsCounts ==
    [][\A w \in Workers :
          (/\ pc[w] = "lock_claim"
           /\ pc'[w] = "claim"
           /\ store.kind = "unit"
           /\ store'.task_params # store.task_params)
              => \A c \in {TASK_SUCCESS, TASK_FAILED, TASK_RUNNING} :
                     Count(store'.task_status, c) = Count(store.task_status, c)]_vars

====
